---- MODULE Spec2Model ----
(***************************************************************************)
(* A model of the Serializable library (src/Serializable/index.js): the    *)
(* class registry, construction of subclass instances, serialize and       *)
(* deserialize, over a heap of JavaScript objects with identity; and of    *)
(* DOMQuery (src/DOMQuery/index.js): the query root and the query calls.   *)
(***************************************************************************)
EXTENDS Integers, Sequences, FiniteSets, TLC

\* ------------------------------------------------------------------ bounds

\* Instances the host program of Spec constructs with `new`.
MaxInst == 1
\* Instances the host program of SpecGraph builds its graphs of.
MaxGraphInst == 2
\* Own properties the host program adds to its instances, over all of them.
MaxProps == 2

\* ------------------------------------------------------------------ values

\* A JavaScript value: a kind k and a payload v (a number, or a heap address
\* for a reference to an object with identity).
Val(k, v) == [k |-> k, v |-> v]
Num1 == Val("num", 1)
NaN == Val("nan", 0)
Null == Val("null", 0)
Undef == Val("undef", 0)
Fn == Val("fn", 0)
\* An object of a class of the host program that does not extend Serializable.
Custom == Val("custom", 0)
Ref(a) == Val("ref", a)
\* More scalars: a string (by its number in the host program's texts), a
\* boolean, a bigint and a symbol.
Str1 == Val("str", 1)
True == Val("bool", 1)
BigInt1 == Val("bigint", 1)
Sym == Val("symbol", 0)

\* typeof value
TypeOf(value) ==
    CASE value.k \in {"num", "nan"} -> "number"
      [] value.k = "str" -> "string"
      [] value.k = "bool" -> "boolean"
      [] value.k = "bigint" -> "bigint"
      [] value.k = "symbol" -> "symbol"
      [] value.k = "undef" -> "undefined"
      [] value.k = "fn" -> "function"
      [] OTHER -> "object"

\* The errors the code throws, by the place that throws them.
NoErr == "none"
DirectInstantiation == "DirectInstantiation"
InvalidRegistration == "InvalidRegistration"
UnsupportedConstructorArgument == "UnsupportedConstructorArgument"
MalformedInput == "MalformedInput"
UnknownType == "UnknownType"
UnsupportedType == "UnsupportedType"
\* Errors of the language itself: an unbound identifier, a property read of
\* undefined or null, and the call stack running out.
ReferenceError == "ReferenceError"
TypeError == "TypeError"
RangeError == "RangeError"

\* ------------------------------------------------------------------ classes

\* The constructors of the host program: two different classes that are both
\* named A, a class B, an anonymous class, and the base class itself.
SubCtors == {"A1", "A2", "B1", "Anon"}
\* A class C whose constructor, after super(...allChildArgs), assigns
\* this.x = 0.
AssigningCtor == "C1"
Base == "Serializable"
\* What register can be handed: a constructor, or an object with no name.
NoNameObject == "NoNameObject"

NoName == ""
\* Class.name
ClassName(c) ==
    CASE c \in {"A1", "A2"} -> "A"
      [] c = "B1" -> "B"
      [] c = AssigningCtor -> "C"
      [] c = Base -> "Serializable"
      [] OTHER -> NoName

\* ------------------------------------------------------------------ heap

\* An object with identity: a Serializable instance or a plain record (props,
\* own properties in insertion order) or an array (items).
Prop(key, val) == [key |-> key, val |-> val]
InstCell(c, props) == [kind |-> "inst", ctor |-> c, props |-> props, items |-> <<>>]
ObjCell(props) == [kind |-> "obj", ctor |-> "Object", props |-> props, items |-> <<>>]
ArrCell(items) == [kind |-> "arr", ctor |-> "Array", props |-> <<>>, items |-> items]
\* A Map (props: its entries in insertion order, the keys being values), a
\* Set (items: its members in insertion order), a typed array of class c
\* (items: its numbers), a Date (items: its time value, NaN when invalid), a
\* RegExp (items: source, flags) and an Error (items: name, message, stack).
MapCell(entries) == [kind |-> "map", ctor |-> "Map", props |-> entries, items |-> <<>>]
SetCell(members) == [kind |-> "set", ctor |-> "Set", props |-> <<>>, items |-> members]
TypedCell(c, numbers) == [kind |-> "typed", ctor |-> c, props |-> <<>>, items |-> numbers]
DateCell(time) == [kind |-> "date", ctor |-> "Date", props |-> <<>>, items |-> <<time>>]
RegExpCell(source, flags) ==
    [kind |-> "regexp", ctor |-> "RegExp", props |-> <<>>, items |-> <<source, flags>>]
ErrorCell(name, message, stack) ==
    [kind |-> "error", ctor |-> "Error", props |-> <<>>, items |-> <<name, message, stack>>]

\* value instanceof C, Array.isArray(value), ArrayBuffer.isView(value): for
\* a reference, by the kind of the object it refers to.
IsKind(h, value, kind) == value.k = "ref" /\ h[value.v].kind = kind

InitArgsKey == "_serializeInitArgs"

Keys(props) == {props[i].key : i \in 1..Len(props)}
HasKey(props, key) == key \in Keys(props)
Get(props, key) == props[CHOOSE i \in 1..Len(props) : props[i].key = key].val
\* obj[key] = val: an own property keeps its place, a new one comes last.
Put(props, key, val) ==
    IF HasKey(props, key)
    THEN [i \in 1..Len(props) |->
            IF props[i].key = key THEN Prop(key, val) ELSE props[i]]
    ELSE Append(props, Prop(key, val))

Instances(h) == {a \in 1..Len(h) : h[a].kind = "inst"}
\* The own properties of the instances of h but _serializeInitArgs.
AddedProps(h) ==
    UNION {{<<a, i>> : i \in {j \in 1..Len(h[a].props) :
                                h[a].props[j].key # InitArgsKey}} :
           a \in Instances(h)}

\* The own properties the constructor of Class assigns after super returns.
CtorBody(Class) ==
    IF Class = AssigningCtor THEN <<Prop("x", Val("num", 0))>> ELSE <<>>

\* ------------------------------------------------------------------ registry

\* register as it would be with set() outside the has() test: a later class
\* of the same name replaces the earlier one.
registerOverwriting(reg, Class) ==
    IF ClassName(Class) = NoName
    THEN [err |-> InvalidRegistration, reg |-> reg]
    ELSE [err |-> NoErr,
          reg |-> [name \in DOMAIN reg \cup {ClassName(Class)} |->
                     IF name = ClassName(Class) THEN Class ELSE reg[name]]]

\* register as it would be without the test of the name.
registerUnnamed(reg, Class) ==
    IF ClassName(Class) \notin DOMAIN reg
    THEN [err |-> NoErr, reg |-> reg @@ (ClassName(Class) :> Class)]
    ELSE [err |-> NoErr, reg |-> reg]

\* Serializable.register(Class): what it throws (or NoErr) and the registry
\* it leaves.
register(reg, Class) ==
    LET className == ClassName(Class) IN
    IF className = NoName
    THEN [err |-> InvalidRegistration, reg |-> reg]
    ELSE IF className \notin DOMAIN reg
         THEN [err |-> NoErr, reg |-> reg @@ (className :> Class)]
         ELSE [err |-> NoErr, reg |-> reg]

\* ------------------------------------------------------------------ construction

\* typeof arg === "object" && arg.constructor === Object
IsPlainObject(h, arg) == IsKind(h, arg, "obj")

\* The test of _validateArgs on one argument, in the order of the source.
IsSupportedArg(h, arg) ==
    \/ IsKind(h, arg, "inst")
    \/ IsKind(h, arg, "arr")
    \/ IsKind(h, arg, "map")
    \/ IsKind(h, arg, "set")
    \/ IsKind(h, arg, "date")
    \/ IsKind(h, arg, "regexp")
    \/ IsKind(h, arg, "error")
    \/ IsKind(h, arg, "typed")
    \/ TypeOf(arg) = "bigint"
    \/ arg.k = "undef"
    \/ arg.k = "null"
    \/ TypeOf(arg) # "object"
    \/ IsPlainObject(h, arg)

\* Object.values(arg).some(value => typeof value === "function")
HasFunction(h, arg) ==
    \E i \in 1..Len(h[arg.v].props) : h[arg.v].props[i].val.k = "fn"

\* _validateArgs(args): the loop stops at the first argument that is
\* unsupported, or that is null (the test for a plain record reads
\* arg.constructor of it); a plain record holding a function before that
\* point is warned about.
_validateArgs(h, args) ==
    LET bad == {i \in 1..Len(args) :
                   ~IsSupportedArg(h, args[i]) \/ args[i].k = "null"}
        stop == IF bad = {} THEN Len(args) + 1
                ELSE CHOOSE i \in bad : \A j \in bad : i <= j
    IN [err |-> IF bad = {} THEN NoErr
                ELSE IF args[stop].k = "null" THEN TypeError
                ELSE UnsupportedConstructorArgument,
        warned |-> \E i \in 1..(stop - 1) :
                      IsPlainObject(h, args[i]) /\ HasFunction(h, args[i])]

\* new Class(...allChildArgs) for a class whose constructor calls
\* super(...allChildArgs) and then runs its body. The constructor of
\* Serializable validates the
\* identifier `args`, which is no parameter or local of it: it is looked up
\* in the global scope, and the lookup throws when nothing is bound there.
\* h, reg: the heap and registry before; genv: the global binding.
construct(h, reg, genv, Class, allChildArgs) ==
    LET fail(e, w) == [err |-> e, warned |-> w, inst |-> 0, heap |-> h, reg |-> reg]
    IN
    IF Class = Base THEN fail(DirectInstantiation, FALSE)
    ELSE IF ~genv.bound THEN fail(ReferenceError, FALSE)
    ELSE LET v == _validateArgs(h, genv.val) IN
         IF v.err # NoErr THEN fail(v.err, v.warned)
         ELSE LET r == register(reg, Class)
                  arr == Len(h) + 1
                  h2 == h \o <<ArrCell(allChildArgs),
                               InstCell(Class, <<Prop(InitArgsKey, Ref(arr))>>
                                                   \o CtorBody(Class))>>
              IN IF r.err # NoErr THEN fail(r.err, v.warned)
                 ELSE [err |-> NoErr, warned |-> v.warned, inst |-> arr + 1,
                       heap |-> h2, reg |-> r.reg]

\* ------------------------------------------------------------------ wire format

\* The tree recursiveSerialize builds. A value with no __type is passed
\* through as it is (Raw); the others are objects with a __type.
Raw(val) == [type |-> "raw", val |-> val]
RefNode(id) == [type |-> "ref", id |-> id]
SerializableNode(id, data) == [type |-> "Serializable", id |-> id, text |-> data]
ArrayNode(data) == [type |-> "Array", items |-> data]
ObjectNode(id, data) == [type |-> "Object", id |-> id, fields |-> data]
UndefinedNode == [type |-> "undefined"]
\* data of a Map node: pairs <<key node, value node>>.
MapNode(data) == [type |-> "Map", pairs |-> data]
SetNode(data) == [type |-> "Set", members |-> data]
TypedArrayNode(constructor, data) ==
    [type |-> "TypedArray", constructor |-> constructor, numbers |-> data]
DateNode(data) == [type |-> "Date", iso |-> data]
RegExpNode(source, flags) == [type |-> "RegExp", source |-> source, flags |-> flags]
ErrorNode(name, message, stack) ==
    [type |-> "Error", name |-> name, message |-> message, stack |-> stack]
BigIntNode(data) == [type |-> "BigInt", digits |-> data]
\* A node whose __type the decoder does not know.
AlienNode == [type |-> "Alien"]
Field(key, node) == [key |-> key, node |-> node]

\* A string handed to JSON.parse: text that is no JSON, the JSON text null,
\* or the JSON text of an object. The object may lack any of className,
\* serializeInitArgs and properties.
Envelope(className, hasArgs, serializeInitArgs, hasProps, properties) ==
    [className |-> className, hasArgs |-> hasArgs,
     serializeInitArgs |-> serializeInitArgs,
     hasProps |-> hasProps, properties |-> properties]
NoEnvelope == Envelope("undefined", FALSE, <<>>, FALSE, <<>>)
NotJsonText == [form |-> "notjson", env |-> NoEnvelope]
NullText == [form |-> "null", env |-> NoEnvelope]
ObjectText(env) == [form |-> "object", env |-> env]

\* JSON.stringify of a number in an array: NaN becomes null.
StringifyNumbers(numbers) ==
    [i \in 1..Len(numbers) |-> IF numbers[i].k = "nan" THEN Null ELSE numbers[i]]

\* JSON.stringify on the tree: NaN becomes null; a property whose value is a
\* function, a symbol or undefined is left out, and in an array such a value
\* becomes null. The text of a nested instance is a string already.
RECURSIVE StringifyNode(_), StringifyItems(_), StringifyFields(_),
          StringifyPairs(_)
StringifyNode(n) ==
    CASE n.type = "raw" ->
            IF n.val.k \in {"nan", "fn", "symbol", "undef"} THEN Raw(Null) ELSE n
      [] n.type = "Array" -> ArrayNode(StringifyItems(n.items))
      [] n.type = "Map" -> MapNode(StringifyPairs(n.pairs))
      [] n.type = "Set" -> SetNode(StringifyItems(n.members))
      [] n.type = "TypedArray" ->
            TypedArrayNode(n.constructor, StringifyNumbers(n.numbers))
      [] n.type = "Object" -> ObjectNode(n.id, StringifyFields(n.fields))
      [] OTHER -> n
StringifyPairs(ps) ==
    IF ps = <<>> THEN <<>>
    ELSE <<<<StringifyNode(Head(ps)[1]), StringifyNode(Head(ps)[2])>>>>
            \o StringifyPairs(Tail(ps))
StringifyItems(ns) ==
    IF ns = <<>> THEN <<>>
    ELSE <<StringifyNode(Head(ns))>> \o StringifyItems(Tail(ns))
StringifyFields(fs) ==
    IF fs = <<>> THEN <<>>
    ELSE LET f == Head(fs) IN
         IF f.node.type = "raw" /\ f.node.val.k \in {"fn", "symbol", "undef"}
         THEN StringifyFields(Tail(fs))
         ELSE <<Field(f.key, StringifyNode(f.node))>> \o StringifyFields(Tail(fs))

\* JSON.stringify({className, serializeInitArgs, properties})
Stringify(className, serializeInitArgs, properties) ==
    ObjectText(Envelope(className, TRUE, StringifyItems(serializeInitArgs),
                        TRUE, StringifyFields(properties)))

\* ------------------------------------------------------------------ serialize

\* seen: the WeakMap of _serializeValue, as the pairs it holds.
SeenHas(seen, a) == \E i \in 1..Len(seen) : seen[i].obj = a
\* seen.get as it would be if it gave the id of the first object seen.
SeenGetFirst(seen, a) == seen[1].id
SeenGet(seen, a) == seen[CHOOSE i \in 1..Len(seen) : seen[i].obj = a].id
SeenSet(seen, a, id) == Append(seen, [obj |-> a, id |-> id])

SerOk(node, st) == [err |-> NoErr, node |-> node, st |-> st]
SerFail(e, st) == [err |-> e, node |-> UndefinedNode, st |-> st]

\* recursiveSerialize(value) with the seen map and refId of its closure in st;
\* serialize() of instance a; active: the instances whose serialize() is on
\* the call stack. serialize() reads only the heap and no call changes the
\* heap, so a call of a.serialize() made while a.serialize() is running
\* repeats it without end: the stack runs out and the engine throws
\* RangeError.
RECURSIVE recursiveSerialize(_, _, _, _), serializeItems(_, _, _, _),
          serializeEntries(_, _, _, _), serializePairs(_, _, _, _),
          serialize(_, _, _),
          serializeProperties(_, _, _), serializeInitArgs(_, _, _),
          SerializableCase(_, _, _, _), ArrayCase(_, _, _, _),
          MapCase(_, _, _, _), SetCase(_, _, _, _), ObjectCase(_, _, _, _)

\* value instanceof Serializable
SerializableCase(h, value, st, active) ==
    IF SeenHas(st.seen, value.v)
    THEN SerOk(RefNode(SeenGet(st.seen, value.v)), st)
    ELSE LET id == st.refId
             st2 == [seen |-> SeenSet(st.seen, value.v, id), refId |-> id + 1]
             data == serialize(h, value.v, active)
         IN IF data.err # NoErr THEN SerFail(data.err, st2)
            ELSE SerOk(SerializableNode(id, data.text), st2)

\* The Array case as it would be with arrays tracked like plain records: a
\* second occurrence of an array is emitted as a "ref".
ArrayCaseTracked(h, value, st, active) ==
    IF SeenHas(st.seen, value.v)
    THEN SerOk(RefNode(SeenGet(st.seen, value.v)), st)
    ELSE LET id == st.refId
             st2 == [seen |-> SeenSet(st.seen, value.v, id), refId |-> id + 1]
             r == serializeItems(h, h[value.v].items, st2, active)
         IN IF r.err # NoErr THEN SerFail(r.err, r.st)
            ELSE SerOk(ArrayNode(r.nodes), r.st)

\* Array.isArray(value)
ArrayCase(h, value, st, active) ==
    LET r == serializeItems(h, h[value.v].items, st, active)
    IN IF r.err # NoErr THEN SerFail(r.err, r.st)
       ELSE SerOk(ArrayNode(r.nodes), r.st)

\* value instanceof Map
MapCase(h, value, st, active) ==
    LET r == serializePairs(h, h[value.v].props, st, active)
    IN IF r.err # NoErr THEN SerFail(r.err, r.st)
       ELSE SerOk(MapNode(r.pairs), r.st)

\* value instanceof Set
SetCase(h, value, st, active) ==
    LET r == serializeItems(h, h[value.v].items, st, active)
    IN IF r.err # NoErr THEN SerFail(r.err, r.st)
       ELSE SerOk(SetNode(r.nodes), r.st)

\* ArrayBuffer.isView(value)
TypedArrayCase(h, value, st) ==
    SerOk(TypedArrayNode(h[value.v].ctor, h[value.v].items), st)

\* value instanceof Date: toISOString throws RangeError for an invalid date;
\* the text of a valid one holds its time value to the millisecond.
DateCase(h, value, st) ==
    LET time == h[value.v].items[1] IN
    IF time.k = "nan" THEN SerFail(RangeError, st)
    ELSE SerOk(DateNode(time.v), st)

\* value instanceof RegExp
RegExpCase(h, value, st) ==
    SerOk(RegExpNode(h[value.v].items[1], h[value.v].items[2]), st)

\* value instanceof Error
ErrorCase(h, value, st) ==
    SerOk(ErrorNode(h[value.v].items[1], h[value.v].items[2], h[value.v].items[3]),
          st)

\* typeof value === "bigint"
BigIntCase(value, st) == SerOk(BigIntNode(value.v), st)

\* typeof value === "object" && value.constructor === Object
ObjectCase(h, value, st, active) ==
    IF SeenHas(st.seen, value.v)
    THEN SerOk(RefNode(SeenGet(st.seen, value.v)), st)
    ELSE LET id == st.refId
             st2 == [seen |-> SeenSet(st.seen, value.v, id), refId |-> id + 1]
             r == serializeEntries(h, h[value.v].props, st2, active)
         IN IF r.err # NoErr THEN SerFail(r.err, r.st)
            ELSE SerOk(ObjectNode(id, r.fields), r.st)

\* recursiveSerialize as it would be with the test for null and scalars
\* ahead of the tests for bigint and undefined.
recursiveSerializeScalarsFirst(h, value, st, active) ==
    IF IsKind(h, value, "inst") THEN SerializableCase(h, value, st, active)
    ELSE IF IsKind(h, value, "arr") THEN ArrayCase(h, value, st, active)
    ELSE IF IsKind(h, value, "map") THEN MapCase(h, value, st, active)
    ELSE IF IsKind(h, value, "set") THEN SetCase(h, value, st, active)
    ELSE IF IsKind(h, value, "typed") THEN TypedArrayCase(h, value, st)
    ELSE IF IsKind(h, value, "date") THEN DateCase(h, value, st)
    ELSE IF IsKind(h, value, "regexp") THEN RegExpCase(h, value, st)
    ELSE IF IsKind(h, value, "error") THEN ErrorCase(h, value, st)
    ELSE IF value.k = "null" \/ TypeOf(value) # "object" THEN SerOk(Raw(value), st)
    ELSE IF TypeOf(value) = "bigint" THEN BigIntCase(value, st)
    ELSE IF value.k = "undef" THEN SerOk(UndefinedNode, st)
    ELSE IF IsPlainObject(h, value) THEN ObjectCase(h, value, st, active)
    ELSE SerFail(UnsupportedType, st)

\* The tests of recursiveSerialize, in the order of the source.
recursiveSerialize(h, value, st, active) ==
    IF IsKind(h, value, "inst") THEN SerializableCase(h, value, st, active)
    ELSE IF IsKind(h, value, "arr") THEN ArrayCase(h, value, st, active)
    ELSE IF IsKind(h, value, "map") THEN MapCase(h, value, st, active)
    ELSE IF IsKind(h, value, "set") THEN SetCase(h, value, st, active)
    ELSE IF IsKind(h, value, "typed") THEN TypedArrayCase(h, value, st)
    ELSE IF IsKind(h, value, "date") THEN DateCase(h, value, st)
    ELSE IF IsKind(h, value, "regexp") THEN RegExpCase(h, value, st)
    ELSE IF IsKind(h, value, "error") THEN ErrorCase(h, value, st)
    ELSE IF TypeOf(value) = "bigint" THEN BigIntCase(value, st)
    ELSE IF value.k = "undef" THEN SerOk(UndefinedNode, st)
    ELSE IF value.k = "null" \/ TypeOf(value) # "object" THEN SerOk(Raw(value), st)
    ELSE IF IsPlainObject(h, value) THEN ObjectCase(h, value, st, active)
    ELSE SerFail(UnsupportedType, st)

\* value.map(recursiveSerialize)
serializeItems(h, items, st, active) ==
    IF items = <<>> THEN [err |-> NoErr, nodes |-> <<>>, st |-> st]
    ELSE LET r == recursiveSerialize(h, Head(items), st, active) IN
         IF r.err # NoErr THEN [err |-> r.err, nodes |-> <<>>, st |-> r.st]
         ELSE LET rest == serializeItems(h, Tail(items), r.st, active) IN
              [err |-> rest.err, nodes |-> <<r.node>> \o rest.nodes, st |-> rest.st]

\* Array.from(value.entries()).map(([k, v]) =>
\*     [recursiveSerialize(k), recursiveSerialize(v)])
serializePairs(h, entries, st, active) ==
    IF entries = <<>> THEN [err |-> NoErr, pairs |-> <<>>, st |-> st]
    ELSE LET k == recursiveSerialize(h, Head(entries).key, st, active) IN
         IF k.err # NoErr THEN [err |-> k.err, pairs |-> <<>>, st |-> k.st]
         ELSE LET v == recursiveSerialize(h, Head(entries).val, k.st, active) IN
              IF v.err # NoErr THEN [err |-> v.err, pairs |-> <<>>, st |-> v.st]
              ELSE LET rest == serializePairs(h, Tail(entries), v.st, active) IN
                   [err |-> rest.err,
                    pairs |-> <<<<k.node, v.node>>>> \o rest.pairs,
                    st |-> rest.st]

\* for (const [key, val] of Object.entries(value)) serializedObject[key] = ...
serializeEntries(h, props, st, active) ==
    IF props = <<>> THEN [err |-> NoErr, fields |-> <<>>, st |-> st]
    ELSE LET r == recursiveSerialize(h, Head(props).val, st, active) IN
         IF r.err # NoErr THEN [err |-> r.err, fields |-> <<>>, st |-> r.st]
         ELSE LET rest == serializeEntries(h, Tail(props), r.st, active) IN
              [err |-> rest.err,
               fields |-> <<Field(Head(props).key, r.node)>> \o rest.fields,
               st |-> rest.st]

\* _serializeValue(value): a new seen map and a new refId for every call.
_serializeValue(h, value, active) ==
    recursiveSerialize(h, value, [seen |-> <<>>, refId |-> 0], active)

\* The first loop of serialize(): every own property through _serializeValue.
serializeProperties(h, props, active) ==
    IF props = <<>> THEN [err |-> NoErr, fields |-> <<>>]
    ELSE LET r == _serializeValue(h, Head(props).val, active) IN
         IF r.err # NoErr THEN [err |-> r.err, fields |-> <<>>]
         ELSE LET rest == serializeProperties(h, Tail(props), active) IN
              [err |-> rest.err,
               fields |-> <<Field(Head(props).key, r.node)>> \o rest.fields]

\* this._serializeInitArgs.map((arg) => Serializable._serializeValue(arg))
serializeInitArgs(h, args, active) ==
    IF args = <<>> THEN [err |-> NoErr, nodes |-> <<>>]
    ELSE LET r == _serializeValue(h, Head(args), active) IN
         IF r.err # NoErr THEN [err |-> r.err, nodes |-> <<>>]
         ELSE LET rest == serializeInitArgs(h, Tail(args), active) IN
              [err |-> rest.err, nodes |-> <<r.node>> \o rest.nodes]

serialize(h, a, active) ==
    IF a \in active THEN [err |-> RangeError, text |-> NotJsonText]
    ELSE LET this == h[a]
             running == active \cup {a}
             serializedProperties == serializeProperties(h, this.props, running)
         IN IF serializedProperties.err # NoErr
            THEN [err |-> serializedProperties.err, text |-> NotJsonText]
            ELSE LET initArgs == h[Get(this.props, InitArgsKey).v].items
                     args == serializeInitArgs(h, initArgs, running)
                 IN IF args.err # NoErr
                    THEN [err |-> args.err, text |-> NotJsonText]
                    ELSE [err |-> NoErr,
                          text |-> Stringify(ClassName(this.ctor), args.nodes,
                                             serializedProperties.fields)]

\* ------------------------------------------------------------------ deserialize

\* references: the Map of _deserializeValue, as the entries set so far; a
\* later set of the same id hides an earlier one. Array nodes carry no id,
\* and the decoder sets their array under the id undefined (NoId).
NoId == -1
RefsGet(refs, id) ==
    LET at == {i \in 1..Len(refs) : refs[i].id = id} IN
    IF at = {} THEN Undef
    ELSE refs[CHOOSE i \in at : \A j \in at : j <= i].val
RefsSet(refs, id, val) == Append(refs, [id |-> id, val |-> val])

\* st: the heap and the registry as the call goes, how many constructors it
\* has invoked and how many values it has decoded so far, and the log of
\* these steps in the order they were taken.
DecodeStep == [ev |-> "decode", key |-> ""]
NewStep == [ev |-> "new", key |-> ""]
AssignStep(key) == [ev |-> "assign", key |-> key]
DesOk(val, refs, st) == [err |-> NoErr, val |-> val, refs |-> refs, st |-> st]
DesFail(e, refs, st) == [err |-> e, val |-> Undef, refs |-> refs, st |-> st]

\* The operators below come in pairs, a call and what the code does with its
\* result, so that each result is computed once.
RECURSIVE deserializeInternal(_, _, _, _), deserializeItems(_, _, _, _),
          deserializePairs(_, _, _, _),
          deserializeEntries(_, _, _, _, _), deserialize(_, _, _),
          deserializeArgs(_, _, _), deserializeProperties(_, _, _, _)

\* case "Serializable": references.set(value.id, instance); return instance
SetInstance(d, id, refs) ==
    IF d.err # NoErr THEN DesFail(d.err, refs, d.st)
    ELSE DesOk(Ref(d.inst), RefsSet(refs, id, Ref(d.inst)), d.st)

\* case "Array": references.set(value.id, deserializedArray), value.id being
\* undefined
SetArray(r) ==
    IF r.err # NoErr THEN DesFail(r.err, r.refs, r.st)
    ELSE DesOk(Ref(Len(r.st.heap) + 1),
               RefsSet(r.refs, NoId, Ref(Len(r.st.heap) + 1)),
               [r.st EXCEPT !.heap = Append(@, ArrCell(r.vals))])

\* new Map(entries): an entry whose key the map has replaces the value and
\* keeps the place.
RECURSIVE MapFromEntries(_)
MapFromEntries(entries) ==
    IF entries = <<>> THEN <<>>
    ELSE Put(MapFromEntries(SubSeq(entries, 1, Len(entries) - 1)),
             entries[Len(entries)].key, entries[Len(entries)].val)

\* new Set(items): a member the set has is not added again.
RECURSIVE SetFromItems(_)
SetFromItems(items) ==
    IF items = <<>> THEN <<>>
    ELSE LET init == SetFromItems(SubSeq(items, 1, Len(items) - 1))
             item == items[Len(items)]
         IN IF \E i \in 1..Len(init) : init[i] = item THEN init
            ELSE Append(init, item)

\* A new object on the heap of st, as the value the decoder returns.
NewObject(cell, refs, st) ==
    DesOk(Ref(Len(st.heap) + 1), refs, [st EXCEPT !.heap = Append(@, cell)])

\* case "Map": references.set(value.id, deserializedMap)
SetMap(r) ==
    IF r.err # NoErr THEN DesFail(r.err, r.refs, r.st)
    ELSE NewObject(MapCell(MapFromEntries(r.entries)),
                   RefsSet(r.refs, NoId, Ref(Len(r.st.heap) + 1)), r.st)

\* case "Set": references.set(value.id, deserializedSet)
SetSet(r) ==
    IF r.err # NoErr THEN DesFail(r.err, r.refs, r.st)
    ELSE NewObject(SetCell(SetFromItems(r.vals)),
                   RefsSet(r.refs, NoId, Ref(Len(r.st.heap) + 1)), r.st)

\* The typed array classes of globalThis.
GlobalTypedArrays == {"Uint8Array", "Float64Array"}

\* case "TypedArray": new globalThis[value.constructor](value.data); a null
\* of the data becomes the number 0.
NewTypedArray(node, refs, st) ==
    IF node.constructor \notin GlobalTypedArrays THEN DesFail(TypeError, refs, st)
    ELSE NewObject(TypedCell(node.constructor,
                     [i \in 1..Len(node.numbers) |->
                        IF node.numbers[i].k = "null" THEN Val("num", 0)
                        ELSE node.numbers[i]]),
                   refs, st)

\* case "Object": return deserializedObject
FilledObject(a, r) ==
    IF r.err # NoErr THEN DesFail(r.err, r.refs, r.st)
    ELSE DesOk(Ref(a), r.refs, r.st)

deserializeInternal(node, refs, st, genv) ==
    CASE node.type = "ref" -> DesOk(RefsGet(refs, node.id), refs, st)
      [] node.type = "Serializable" ->
            SetInstance(deserialize(node.text, st, genv), node.id, refs)
      [] node.type = "Array" ->
            SetArray(deserializeItems(node.items, refs, st, genv))
      [] node.type = "Map" ->
            SetMap(deserializePairs(node.pairs, refs, st, genv))
      [] node.type = "Set" ->
            SetSet(deserializeItems(node.members, refs, st, genv))
      [] node.type = "Date" ->
            NewObject(DateCell(Val("num", node.iso)), refs, st)
      [] node.type = "RegExp" ->
            NewObject(RegExpCell(node.source, node.flags), refs, st)
      [] node.type = "Error" ->
            NewObject(ErrorCell(node.name, node.message, node.stack), refs, st)
      [] node.type = "TypedArray" -> NewTypedArray(node, refs, st)
      [] node.type = "BigInt" -> DesOk(Val("bigint", node.digits), refs, st)
      [] node.type = "undefined" -> DesOk(Undef, refs, st)
      [] node.type = "Object" ->
            FilledObject(Len(st.heap) + 1,
                deserializeEntries(node.fields, Len(st.heap) + 1,
                    RefsSet(refs, node.id, Ref(Len(st.heap) + 1)),
                    [st EXCEPT !.heap = Append(@, ObjCell(<<>>))], genv))
      [] node.type = "raw" -> DesOk(node.val, refs, st)
      [] OTHER -> DesFail(UnsupportedType, refs, st)

ConsItem(val, rest) ==
    [err |-> rest.err, vals |-> <<val>> \o rest.vals,
     refs |-> rest.refs, st |-> rest.st]

RestItems(r, nodes, genv) ==
    IF r.err # NoErr
    THEN [err |-> r.err, vals |-> <<>>, refs |-> r.refs, st |-> r.st]
    ELSE ConsItem(r.val, deserializeItems(nodes, r.refs, r.st, genv))

\* value.data.map(deserializeInternal)
deserializeItems(nodes, refs, st, genv) ==
    IF nodes = <<>> THEN [err |-> NoErr, vals |-> <<>>, refs |-> refs, st |-> st]
    ELSE RestItems(deserializeInternal(Head(nodes), refs, st, genv),
                   Tail(nodes), genv)

ConsPair(key, val, rest) ==
    [err |-> rest.err, entries |-> <<Prop(key, val)>> \o rest.entries,
     refs |-> rest.refs, st |-> rest.st]

RestPairs(key, v, pairs, genv) ==
    IF v.err # NoErr
    THEN [err |-> v.err, entries |-> <<>>, refs |-> v.refs, st |-> v.st]
    ELSE ConsPair(key, v.val, deserializePairs(pairs, v.refs, v.st, genv))

PairValue(k, pairs, genv) ==
    IF k.err # NoErr
    THEN [err |-> k.err, entries |-> <<>>, refs |-> k.refs, st |-> k.st]
    ELSE RestPairs(k.val, deserializeInternal(Head(pairs)[2], k.refs, k.st, genv),
                   Tail(pairs), genv)

\* value.data.map(([k, v]) => [deserializeInternal(k), deserializeInternal(v)])
deserializePairs(pairs, refs, st, genv) ==
    IF pairs = <<>>
    THEN [err |-> NoErr, entries |-> <<>>, refs |-> refs, st |-> st]
    ELSE PairValue(deserializeInternal(Head(pairs)[1], refs, st, genv), pairs, genv)

\* obj[key] = val on the object at address a of the heap of st
SetOwn(st, a, key, val) == [st EXCEPT !.heap[a].props = Put(@, key, val)]

RestEntries(r, fields, a, genv) ==
    IF r.err # NoErr THEN [err |-> r.err, refs |-> r.refs, st |-> r.st]
    ELSE deserializeEntries(Tail(fields), a, r.refs,
                            SetOwn(r.st, a, Head(fields).key, r.val), genv)

\* for (const [key, val] of Object.entries(value.data))
\*     deserializedObject[key] = deserializeInternal(val)
deserializeEntries(fields, a, refs, st, genv) ==
    IF fields = <<>> THEN [err |-> NoErr, refs |-> refs, st |-> st]
    ELSE RestEntries(deserializeInternal(Head(fields).node, refs, st, genv),
                     fields, a, genv)

\* _deserializeValue(value): a new references map for every call.
_deserializeValue(node, st, genv) ==
    deserializeInternal(node, <<>>,
                        [st EXCEPT !.decodes = @ + 1,
                                   !.log = Append(@, DecodeStep)], genv)

ConsArg(val, rest) ==
    [err |-> rest.err, vals |-> <<val>> \o rest.vals, st |-> rest.st]

RestArgs(r, nodes, genv) ==
    IF r.err # NoErr THEN [err |-> r.err, vals |-> <<>>, st |-> r.st]
    ELSE ConsArg(r.val, deserializeArgs(nodes, r.st, genv))

\* serializeInitArgs.map((arg) => Serializable._deserializeValue(arg))
deserializeArgs(nodes, st, genv) ==
    IF nodes = <<>> THEN [err |-> NoErr, vals |-> <<>>, st |-> st]
    ELSE RestArgs(_deserializeValue(Head(nodes), st, genv), Tail(nodes), genv)

\* instance[key] = val as it would be if a property the constructor has
\* assigned kept the constructor's value.
AssignOwnIfAbsent(st, instance, key, val) ==
    IF HasKey(st.heap[instance].props, key)
    THEN [st EXCEPT !.log = Append(@, AssignStep(key))]
    ELSE [SetOwn(st, instance, key, val) EXCEPT !.log = Append(@, AssignStep(key))]

\* instance[key] = val
AssignOwn(st, instance, key, val) ==
    [SetOwn(st, instance, key, val) EXCEPT !.log = Append(@, AssignStep(key))]

RestProperties(r, fields, instance, genv) ==
    IF r.err # NoErr THEN [err |-> r.err, st |-> r.st]
    ELSE deserializeProperties(Tail(fields), instance,
                               AssignOwn(r.st, instance, Head(fields).key, r.val),
                               genv)

\* for (const [key, value] of Object.entries(properties))
\*     instance[key] = Serializable._deserializeValue(value)
deserializeProperties(fields, instance, st, genv) ==
    IF fields = <<>> THEN [err |-> NoErr, st |-> st]
    ELSE RestProperties(_deserializeValue(Head(fields).node, st, genv),
                        fields, instance, genv)

DeserializeFail(e, st) == [err |-> e, inst |-> 0, st |-> st]

\* return instance
Assigned(instance, p) ==
    IF p.err # NoErr THEN DeserializeFail(p.err, p.st)
    ELSE [err |-> NoErr, inst |-> instance, st |-> p.st]

\* st after new Class(...) has returned or thrown c
Constructed(st, c) ==
    [st EXCEPT !.heap = c.heap, !.reg = c.reg, !.ctorCalls = @ + 1,
               !.log = Append(@, NewStep)]

\* const instance = new Class(...deserializedArgs), c, and the loop over
\* Object.entries(properties)
AssignProperties(parsed, c, st, genv) ==
    IF c.err # NoErr THEN DeserializeFail(c.err, Constructed(st, c))
    ELSE IF ~parsed.hasProps THEN DeserializeFail(TypeError, Constructed(st, c))
    ELSE Assigned(c.inst,
                  deserializeProperties(parsed.properties, c.inst,
                                        Constructed(st, c), genv))

\* new Class(...deserializedArgs)
Instantiate(parsed, Class, deserializedArgs, genv) ==
    IF deserializedArgs.err # NoErr
    THEN DeserializeFail(deserializedArgs.err, deserializedArgs.st)
    ELSE AssignProperties(parsed,
            construct(deserializedArgs.st.heap, deserializedArgs.st.reg, genv,
                      Class, deserializedArgs.vals),
            deserializedArgs.st, genv)

\* deserialize as it would be with the registry looked up after the init-args
\* are decoded.
LookupAfterDecoding(parsed, deserializedArgs, genv) ==
    IF deserializedArgs.err # NoErr
    THEN DeserializeFail(deserializedArgs.err, deserializedArgs.st)
    ELSE IF parsed.className \notin DOMAIN deserializedArgs.st.reg
         THEN DeserializeFail(UnknownType, deserializedArgs.st)
    ELSE Instantiate(parsed, deserializedArgs.st.reg[parsed.className],
                     deserializedArgs, genv)
deserializeDecodingFirst(json, st, genv) ==
    IF json.form = "notjson" THEN DeserializeFail(MalformedInput, st)
    ELSE IF json.form = "null" THEN DeserializeFail(TypeError, st)
    ELSE IF ~json.env.hasArgs THEN DeserializeFail(TypeError, st)
    ELSE LookupAfterDecoding(json.env,
            deserializeArgs(json.env.serializeInitArgs, st, genv), genv)

\* Serializable.deserialize(json)
deserialize(json, st, genv) ==
    IF json.form = "notjson" THEN DeserializeFail(MalformedInput, st)
    ELSE IF json.form = "null" THEN DeserializeFail(TypeError, st)
    ELSE IF json.env.className \notin DOMAIN st.reg
         THEN DeserializeFail(UnknownType, st)
    ELSE IF ~json.env.hasArgs THEN DeserializeFail(TypeError, st)
    ELSE Instantiate(json.env, st.reg[json.env.className],
                     deserializeArgs(json.env.serializeInitArgs, st, genv), genv)

\* ------------------------------------------------------------------ inputs

\* A plain record holding a function: { f: function () {} }
RecordWithFunction == ObjCell(<<Prop("f", Fn)>>)

\* What `args` may be bound to where the library is loaded, with the objects
\* the binding holds: nothing (the source declares no such name), an empty
\* list, or a list of a plain record holding a function and an object of an
\* unsupported kind.
Unbound == [bound |-> FALSE, val |-> <<>>]
Bound(val) == [bound |-> TRUE, val |-> val]
GlobalScopes ==
    { [args |-> Unbound, heap |-> <<>>],
      [args |-> Bound(<<>>), heap |-> <<>>],
      [args |-> Bound(<<Ref(1), Custom>>), heap |-> <<RecordWithFunction>>] }

\* The property names the host program assigns, and the values it assigns.
PropKeys == {"x", "y"}
PropValues(h) == {Num1, NaN} \cup {Ref(b) : b \in Instances(h)}

\* The argument lists the host program constructs with.
ArgLists == {<<>>, <<Num1, Null>>, <<Custom>>}
\* The classes and argument lists it builds graphs with.
GraphCtors == {"A1", "A2"}
GraphArgLists(h) == {<<>>} \cup {<<Ref(b), NaN>> : b \in Instances(h)}
\* Texts written by hand.
DanglingId == 99
CraftedTexts ==
    << NotJsonText,
       NullText,
       ObjectText(NoEnvelope),
       ObjectText(Envelope("A", FALSE, <<>>, FALSE, <<>>)),
       ObjectText(Envelope("A", TRUE, <<>>, FALSE, <<>>)),
       ObjectText(Envelope("A", TRUE, <<>>, TRUE,
                           <<Field("x", RefNode(DanglingId))>>)),
       ObjectText(Envelope("A", TRUE, <<RefNode(DanglingId)>>, TRUE, <<>>)),
       ObjectText(Envelope("Z", TRUE, <<Raw(Num1)>>, TRUE, <<>>)),
       ObjectText(Envelope("B", TRUE, <<>>, TRUE, <<Field("x", AlienNode)>>)) >>

\* The values the host program of SpecValues makes: the objects each one
\* brings, laid out from address b + 1 of the heap, and the value itself.
Value(cells, val) == [cells |-> cells, val |-> val]
ValueNames ==
    {"num", "str", "null", "undef", "bigint", "fn", "sym", "custom",
     "mixed", "mixedNaN", "arrCustom", "map", "set", "typed", "date",
     "invalidDate", "regexp", "error", "record", "recordFn", "twice",
     "self", "shared", "mutual"}
Sample(name, b) ==
    CASE name = "num" -> Value(<<>>, Num1)
      [] name = "str" -> Value(<<>>, Str1)
      [] name = "null" -> Value(<<>>, Null)
      [] name = "undef" -> Value(<<>>, Undef)
      [] name = "bigint" -> Value(<<>>, BigInt1)
      [] name = "fn" -> Value(<<>>, Fn)
      [] name = "sym" -> Value(<<>>, Sym)
      [] name = "custom" -> Value(<<>>, Custom)
      \* [1, "s", true, null]
      [] name = "mixed" -> Value(<<ArrCell(<<Num1, Str1, True, Null>>)>>, Ref(b + 1))
      \* [1, NaN]
      [] name = "mixedNaN" -> Value(<<ArrCell(<<Num1, NaN>>)>>, Ref(b + 1))
      \* [new Custom()]
      [] name = "arrCustom" -> Value(<<ArrCell(<<Custom>>)>>, Ref(b + 1))
      \* new Map([["s", 1], [1, null]])
      [] name = "map" ->
            Value(<<MapCell(<<Prop(Str1, Num1), Prop(Num1, Null)>>)>>, Ref(b + 1))
      \* new Set([1, "s"])
      [] name = "set" -> Value(<<SetCell(<<Num1, Str1>>)>>, Ref(b + 1))
      \* new Uint8Array([1])
      [] name = "typed" -> Value(<<TypedCell("Uint8Array", <<Num1>>)>>, Ref(b + 1))
      \* new Date(1), new Date(NaN)
      [] name = "date" -> Value(<<DateCell(Num1)>>, Ref(b + 1))
      [] name = "invalidDate" -> Value(<<DateCell(NaN)>>, Ref(b + 1))
      [] name = "regexp" ->
            Value(<<RegExpCell(Val("str", 1), Val("str", 2))>>, Ref(b + 1))
      [] name = "error" ->
            Value(<<ErrorCell(Val("str", 1), Val("str", 2), Val("str", 3))>>,
                  Ref(b + 1))
      \* { p: 1 }, { f: function () {} }
      [] name = "record" -> Value(<<ObjCell(<<Prop("p", Num1)>>)>>, Ref(b + 1))
      [] name = "recordFn" -> Value(<<RecordWithFunction>>, Ref(b + 1))
      \* const inner = [1]; [inner, inner]
      [] name = "twice" ->
            Value(<<ArrCell(<<Num1>>), ArrCell(<<Ref(b + 1), Ref(b + 1)>>)>>,
                  Ref(b + 2))
      \* const o = {}; o.self = o
      [] name = "self" -> Value(<<ObjCell(<<Prop("self", Ref(b + 1))>>)>>, Ref(b + 1))
      \* const p = { p: 1 }, q = { q: 1 }; { a: p, b: q, c: q, d: p }
      [] name = "shared" ->
            Value(<<ObjCell(<<Prop("p", Num1)>>), ObjCell(<<Prop("q", Num1)>>),
                    ObjCell(<<Prop("a", Ref(b + 1)), Prop("b", Ref(b + 2)),
                              Prop("c", Ref(b + 2)), Prop("d", Ref(b + 1))>>)>>,
                  Ref(b + 3))
      \* const m = {}, n = {}; m.n = n; n.n = m
      [] name = "mutual" ->
            Value(<<ObjCell(<<Prop("n", Ref(b + 2))>>),
                    ObjCell(<<Prop("n", Ref(b + 1))>>)>>, Ref(b + 1))
\* The values it constructs with, and the classes it constructs.
ArgValueNames == {"fn", "custom", "self"}
ValueCtors == {"A1", AssigningCtor}

\* ------------------------------------------------------------------ DOMQuery

\* The page: document holds <div id="box" class="c">, which holds
\* <span class="c">. A root is undefined, document or one of the elements.
Undefined == "undefined"
Document == "document"
Elements == {"div", "span"}
\* The descendants of a root, in document order.
Descendants(root) ==
    CASE root = Document -> <<"div", "span">>
      [] root = "div" -> <<"span">>
      [] OTHER -> <<>>
TagOf(element) == element
IdOf(element) == IF element = "div" THEN "box" ELSE ""
ClassOf(element) == "c"

\* element instanceof Type
ElementTypes == {"HTMLElement", "HTMLDivElement", "HTMLSpanElement"}
InstanceOf(element, Type) ==
    \/ Type = "HTMLElement"
    \/ element = "div" /\ Type = "HTMLDivElement"
    \/ element = "span" /\ Type = "HTMLSpanElement"

\* The selectors of the host program; "!" is no selector, and querySelector
\* and querySelectorAll throw SyntaxError for it.
Selectors == {"div", "span", ".c", "#box", "!"}
IsValidSelector(selector) == selector # "!"
Matches(element, selector) ==
    \/ selector = TagOf(element)
    \/ selector = ".c" /\ ClassOf(element) = "c"
    \/ selector = "#box" /\ IdOf(element) = "box"
Ids == {"box", "nope"}
TagNames == {"div", "span"}
ClassNames == {"c", "d"}

\* The errors DOMQuery throws, by the place that throws them.
SelectorError == "SelectorError"
TypeMismatch == "TypeMismatch"
NotDocumentRoot == "NotDocumentRoot"

\* DOMQuery._initRoot() and DOMQuery._resetRoot(), on the value of _root
_initRoot(root) == IF root = Undefined THEN Document ELSE root
_resetRoot(root) == IF root # Document THEN Undefined ELSE root

\* What a query call leaves in _root (root), the root it searched (used),
\* what it threw and the elements it returned.
Thrown(e, root) == [root |-> root, used |-> root, err |-> e, result |-> <<>>]
Returned(result, root) ==
    [root |-> _resetRoot(root), used |-> root, err |-> NoErr, result |-> result]

First(elements) == IF elements = <<>> THEN <<>> ELSE <<Head(elements)>>
AllInstanceOf(elements, Type) ==
    \A i \in 1..Len(elements) : InstanceOf(elements[i], Type)

\* DOMQuery.query(selector, Type), called with _root = root
query(root, selector, Type) ==
    LET element == First(SelectSeq(Descendants(_initRoot(root)), LAMBDA e : Matches(e, selector)))
    IN IF ~IsValidSelector(selector) THEN Thrown(SelectorError, _initRoot(root))
       ELSE IF ~AllInstanceOf(element, Type) THEN Thrown(TypeMismatch, _initRoot(root))
       ELSE Returned(element, _initRoot(root))

\* DOMQuery.queryById(selector, Type)
queryById(root, selector, Type) ==
    LET element == First(SelectSeq(Descendants(Document), LAMBDA e : IdOf(e) = selector))
    IN IF _initRoot(root) # Document THEN Thrown(NotDocumentRoot, _initRoot(root))
       ELSE IF ~AllInstanceOf(element, Type) THEN Thrown(TypeMismatch, _initRoot(root))
       ELSE Returned(element, _initRoot(root))

\* DOMQuery.queryAll(selector, Type)
queryAll(root, selector, Type) ==
    LET elements == SelectSeq(Descendants(_initRoot(root)), LAMBDA e : Matches(e, selector))
    IN IF ~IsValidSelector(selector) THEN Thrown(SelectorError, _initRoot(root))
       ELSE IF ~AllInstanceOf(elements, Type) THEN Thrown(TypeMismatch, _initRoot(root))
       ELSE Returned(elements, _initRoot(root))

\* DOMQuery.queryAllByTagName(tagName)
queryAllByTagName(root, tagName) ==
    Returned(SelectSeq(Descendants(_initRoot(root)), LAMBDA e : TagOf(e) = tagName), _initRoot(root))

\* DOMQuery.queryAllByClassName(className, Type)
queryAllByClassName(root, className, Type) ==
    LET elements == SelectSeq(Descendants(_initRoot(root)), LAMBDA e : ClassOf(e) = className)
    IN IF ~AllInstanceOf(elements, Type) THEN Thrown(TypeMismatch, _initRoot(root))
       ELSE Returned(elements, _initRoot(root))

VARIABLES
    registry,    \* Serializable._classRegistry: class name -> constructor
    heap,        \* the objects the host program holds
    globalArgs,  \* what the identifier `args` is bound to in the global scope
    last,        \* the last call and what it returned or threw
    _root,       \* DOMQuery._root
    lastQuery    \* the last call of DOMQuery and what it returned or threw

domVars == <<_root, lastQuery>>
vars == <<registry, heap, globalArgs, last, _root, lastQuery>>

\* ------------------------------------------------------------------ state machine

NoCall ==
    [op |-> "none", err |-> NoErr, Class |-> "", args |-> <<>>, target |-> 0,
     key |-> "", input |-> NotJsonText, text |-> NotJsonText, inst |-> 0,
     heap |-> <<>>, warned |-> FALSE, ctorCalls |-> 0, decodes |-> 0,
     log |-> <<>>, regBefore |-> <<>>]

\* No call of DOMQuery yet. from: the call was from(), or it was a query
\* call made right after from(); prev: op and from of the call before.
NoQuery ==
    [op |-> "none", arg |-> "", Type |-> "", used |-> Undefined, err |-> NoErr,
     result |-> <<>>, from |-> FALSE, prevOp |-> "none", prevFrom |-> FALSE]

Init ==
    /\ registry = <<>>
    /\ \E scope \in GlobalScopes : globalArgs = scope.args /\ heap = scope.heap
    /\ last = NoCall
    /\ _root = Undefined
    /\ lastQuery = NoQuery

\* Serializable.register(Class)
Register(Class) ==
    LET r == register(registry, Class) IN
    /\ registry' = r.reg
    /\ last' = [NoCall EXCEPT !.op = "register", !.err = r.err, !.Class = Class,
                              !.regBefore = registry]
    /\ UNCHANGED <<heap, globalArgs>>
    /\ UNCHANGED domVars

\* new Class(...allChildArgs), the arguments given over the heap h
\* (the host program's heap and the objects made for the call).
New(Class, h, allChildArgs) ==
    LET c == construct(h, registry, globalArgs, Class, allChildArgs) IN
    /\ registry' = c.reg
    /\ heap' = IF c.err = NoErr THEN c.heap ELSE heap
    /\ last' = [NoCall EXCEPT !.op = "new", !.err = c.err, !.Class = Class,
                              !.args = allChildArgs, !.inst = c.inst,
                              !.heap = c.heap, !.warned = c.warned,
                              !.regBefore = registry]
    /\ UNCHANGED globalArgs
    /\ UNCHANGED domVars

Construct(Class, allChildArgs) == New(Class, heap, allChildArgs)

\* new Class({ f: function () {} })
ConstructWithRecord(Class) ==
    New(Class, Append(heap, RecordWithFunction), <<Ref(Len(heap) + 1)>>)

\* a[key] = val in the host program
Assign(a, key, val) ==
    /\ HasKey(heap[a].props, key) \/ Cardinality(AddedProps(heap)) < MaxProps
    /\ heap' = [heap EXCEPT ![a].props = Put(@, key, val)]
    /\ last' = [NoCall EXCEPT !.op = "assign", !.target = a, !.key = key,
                              !.regBefore = registry]
    /\ UNCHANGED <<registry, globalArgs>>
    /\ UNCHANGED domVars

\* new Class(value) for a value the host program makes for the call
ConstructWithValue(Class, name) ==
    LET arg == Sample(name, Len(heap)) IN
    New(Class, heap \o arg.cells, <<arg.val>>)

\* a[key] = value, for a property a does not have and a value the host
\* program makes for the assignment
AssignValue(a, key, name) ==
    LET value == Sample(name, Len(heap)) IN
    /\ ~HasKey(heap[a].props, key)
    /\ Cardinality(AddedProps(heap)) < MaxProps
    /\ heap' = [heap \o value.cells EXCEPT ![a].props = Put(@, key, value.val)]
    /\ last' = [NoCall EXCEPT !.op = "assign", !.target = a, !.key = key,
                              !.regBefore = registry]
    /\ UNCHANGED <<registry, globalArgs>>
    /\ UNCHANGED domVars

\* a[key] = new Class(), for a property a does not have
AssignNew(a, key, Class) ==
    LET c == construct(heap, registry, globalArgs, Class, <<>>) IN
    /\ ~HasKey(heap[a].props, key)
    /\ Cardinality(AddedProps(heap)) < MaxProps
    /\ registry' = c.reg
    /\ heap' = IF c.err = NoErr
               THEN [c.heap EXCEPT ![a].props = Put(@, key, Ref(c.inst))]
               ELSE heap
    /\ last' = IF c.err = NoErr
               THEN [NoCall EXCEPT !.op = "assign", !.target = a, !.key = key,
                                   !.regBefore = registry]
               ELSE [NoCall EXCEPT !.op = "new", !.err = c.err, !.Class = Class,
                                   !.heap = c.heap, !.warned = c.warned,
                                   !.regBefore = registry]
    /\ UNCHANGED globalArgs
    /\ UNCHANGED domVars

\* a.serialize()
Serialize(a) ==
    LET s == serialize(heap, a, {}) IN
    /\ last' = [NoCall EXCEPT !.op = "serialize", !.err = s.err, !.target = a,
                              !.text = s.text, !.regBefore = registry]
    /\ UNCHANGED <<registry, heap, globalArgs>>
    /\ UNCHANGED domVars

\* Serializable.deserialize(json). The instance it returns and the objects
\* under it are held by the result alone (last.heap); the host program's own
\* objects are as before.
Deserialize(json) ==
    LET d == deserialize(json, [heap |-> heap, reg |-> registry,
                                ctorCalls |-> 0, decodes |-> 0, log |-> <<>>],
                         globalArgs)
    IN
    /\ registry' = d.st.reg
    /\ last' = [NoCall EXCEPT !.op = "deserialize", !.err = d.err, !.input = json,
                              !.inst = d.inst, !.heap = d.st.heap,
                              !.ctorCalls = d.st.ctorCalls,
                              !.decodes = d.st.decodes, !.log = d.st.log,
                              !.regBefore = registry]
    /\ UNCHANGED <<heap, globalArgs>>
    /\ UNCHANGED domVars

\* Serializable.deserialize(a.serialize())
DeserializeOutput ==
    /\ last.op = "serialize"
    /\ last.err = NoErr
    /\ Deserialize(last.text)

\* Serializable.deserialize of a text written by hand
DeserializeCrafted(i) == Deserialize(CraftedTexts[i])

\* The calls of a host program that registers, constructs, serializes and
\* reads texts, some of them written by hand.
Next ==
    \/ \E Class \in SubCtors \cup {NoNameObject} : Register(Class)
    \/ /\ Cardinality(Instances(heap)) < MaxInst
       /\ \E Class \in SubCtors \cup {Base}, allChildArgs \in ArgLists :
             Construct(Class, allChildArgs)
    \/ /\ Cardinality(Instances(heap)) < MaxInst
       /\ \E Class \in SubCtors : ConstructWithRecord(Class)
    \/ \E a \in Instances(heap) : Serialize(a)
    \/ DeserializeOutput
    \/ \E i \in 1..Len(CraftedTexts) : DeserializeCrafted(i)

Spec == Init /\ [][Next]_vars

\* The calls of a host program that builds graphs of instances and takes
\* them through serialize and deserialize.
NextGraph ==
    \/ /\ Cardinality(Instances(heap)) < MaxGraphInst
       /\ \E Class \in GraphCtors, allChildArgs \in GraphArgLists(heap) :
             Construct(Class, allChildArgs)
    \/ \E a \in Instances(heap), key \in PropKeys, val \in PropValues(heap) :
          Assign(a, key, val)
    \/ \E a \in Instances(heap) : Serialize(a)
    \/ DeserializeOutput

SpecGraph == Init /\ [][NextGraph]_vars

\* The calls of a host program that builds one instance, gives it values of
\* every kind and takes it through serialize and deserialize.
NextValues ==
    \/ /\ Instances(heap) = {}
       /\ \E Class \in ValueCtors : Construct(Class, <<>>)
    \/ /\ Instances(heap) = {}
       /\ \E Class \in ValueCtors, name \in ArgValueNames :
             ConstructWithValue(Class, name)
    \/ \E a \in Instances(heap), name \in ValueNames : AssignValue(a, "x", name)
    \/ \E a \in Instances(heap) : AssignNew(a, "x", "A1")
    \/ \E a \in Instances(heap), key \in PropKeys, val \in {Num1, NaN} :
          Assign(a, key, val)
    \/ \E a \in Instances(heap) : Serialize(a)
    \/ DeserializeOutput

SpecValues == Init /\ [][NextValues]_vars

\* DOMQuery.from(element)
From(element) ==
    /\ _root' = element
    /\ lastQuery' = [NoQuery EXCEPT !.op = "from", !.arg = element, !.from = TRUE,
                                    !.prevOp = lastQuery.op,
                                    !.prevFrom = lastQuery.from]
    /\ UNCHANGED <<registry, heap, globalArgs, last>>

\* A query call op(arg, Type) that ended as q.
Queried(op, arg, Type, q) ==
    /\ _root' = q.root
    /\ lastQuery' = [op |-> op, arg |-> arg, Type |-> Type, used |-> q.used,
                     err |-> q.err, result |-> q.result,
                     from |-> lastQuery.op = "from",
                     prevOp |-> lastQuery.op, prevFrom |-> lastQuery.from]
    /\ UNCHANGED <<registry, heap, globalArgs, last>>

Query(selector, Type) ==
    Queried("query", selector, Type, query(_root, selector, Type))
QueryById(selector, Type) ==
    Queried("queryById", selector, Type, queryById(_root, selector, Type))
QueryAll(selector, Type) ==
    Queried("queryAll", selector, Type, queryAll(_root, selector, Type))
QueryAllByTagName(tagName) ==
    Queried("queryAllByTagName", tagName, "", queryAllByTagName(_root, tagName))
QueryAllByClassName(className, Type) ==
    Queried("queryAllByClassName", className, Type,
            queryAllByClassName(_root, className, Type))

\* The calls of a page that queries its DOM.
NextDOM ==
    \/ \E element \in Elements \cup {Document, Undefined} : From(element)
    \/ \E selector \in Selectors, Type \in ElementTypes : Query(selector, Type)
    \/ \E id \in Ids, Type \in ElementTypes : QueryById(id, Type)
    \/ \E selector \in Selectors, Type \in ElementTypes : QueryAll(selector, Type)
    \/ \E tagName \in TagNames : QueryAllByTagName(tagName)
    \/ \E className \in ClassNames, Type \in ElementTypes :
          QueryAllByClassName(className, Type)

SpecDOM == Init /\ [][NextDOM]_vars

\* ------------------------------------------------------------------ claims

\* Structural equality of two values, each over its own heap: the same
\* scalars, and behind references objects of the same class or kind with
\* equal items and equal own properties. seen: the pairs being compared.
RECURSIVE StructEq(_, _, _, _, _)
StructEqCells(h1, c1, h2, c2, seen) ==
    /\ c1.kind = c2.kind
    /\ c1.ctor = c2.ctor
    /\ Len(c1.items) = Len(c2.items)
    /\ \A i \in 1..Len(c1.items) : StructEq(h1, c1.items[i], h2, c2.items[i], seen)
    /\ Keys(c1.props) = Keys(c2.props)
    /\ \A key \in Keys(c1.props) :
          StructEq(h1, Get(c1.props, key), h2, Get(c2.props, key), seen)
StructEq(h1, v1, h2, v2, seen) ==
    IF v1.k # "ref" \/ v2.k # "ref" THEN v1 = v2
    ELSE IF <<v1.v, v2.v>> \in seen THEN TRUE
    ELSE StructEqCells(h1, h1[v1.v], h2, h2[v2.v], seen \cup {<<v1.v, v2.v>>})

\* The class of instance a is the one the registry holds under its name.
IsRegistered(h, reg, a) ==
    /\ ClassName(h[a].ctor) \in DOMAIN reg
    /\ reg[ClassName(h[a].ctor)] = h[a].ctor

\* The instances of the heap that serialize to the text json.
SourcesOf(json) ==
    {x \in Instances(heap) : serialize(heap, x, {}) = [err |-> NoErr, text |-> json]}

\* C1: for every instance x of a registered subclass, x.serialize() returns
\* a text and Serializable.deserialize of that text returns an instance of
\* the same class whose init-args and own properties are structurally equal
\* to those of x.
C1_RoundTrip ==
    /\ (last.op = "serialize" /\ IsRegistered(heap, registry, last.target))
          => last.err = NoErr
    /\ last.op = "deserialize" =>
          \A x \in SourcesOf(last.input) :
              IsRegistered(heap, last.regBefore, x) =>
                  /\ last.err = NoErr
                  /\ StructEq(heap, Ref(x), last.heap, Ref(last.inst), {})

\* a and b are two instances with a.prop = b and b.prop = a.
IsCyclicPair(h, a, b) ==
    /\ a # b
    /\ \E prop \in PropKeys :
          /\ HasKey(h[a].props, prop) /\ Get(h[a].props, prop) = Ref(b)
          /\ HasKey(h[b].props, prop) /\ Get(h[b].props, prop) = Ref(a)

\* C2: for instances a and b with a.prop = b and b.prop = a, a.serialize()
\* ends with a text (the recursion through serialize and _serializeValue is
\* bounded), and deserialize of a text of such an a returns a' with
\* a'.prop = b' and b'.prop = a'.
C2_CycleSafety ==
    /\ (last.op = "serialize" /\ \E b \in Instances(heap) :
                                    IsCyclicPair(heap, last.target, b))
          => last.err = NoErr
    /\ (last.op = "deserialize" /\ \E a \in SourcesOf(last.input) :
                                      \E b \in Instances(heap) : IsCyclicPair(heap, a, b))
          => /\ last.err = NoErr
             /\ \E b \in Instances(last.heap) : IsCyclicPair(last.heap, last.inst, b)

\* a.x and a.y hold the identical instance n, which is not a itself.
SharesNested(h, a, n) ==
    /\ n # a
    /\ HasKey(h[a].props, "x") /\ Get(h[a].props, "x") = Ref(n)
    /\ HasKey(h[a].props, "y") /\ Get(h[a].props, "y") = Ref(n)

\* The nodes a text holds for the properties x and y, in the order of the text.
SharedNodes(json) ==
    LET fields == json.env.properties
        at == {i \in 1..Len(fields) : fields[i].key \in {"x", "y"}}
        first == CHOOSE i \in at : \A j \in at : i <= j
        second == CHOOSE i \in at : \A j \in at : j <= i
    IN <<fields[first].node, fields[second].node>>

\* C3: when a.x and a.y hold the identical nested instance n, the text of
\* a.serialize() holds one "Serializable" node for n and a "ref" node with
\* that node's id at the second occurrence, and the instance a' decoded from
\* the text has a'.x identical to a'.y.
C3_SharedReference ==
    /\ (/\ last.op = "serialize"
        /\ last.err = NoErr
        /\ \E n \in Instances(heap) : SharesNested(heap, last.target, n))
          => /\ SharedNodes(last.text)[1].type = "Serializable"
             /\ SharedNodes(last.text)[2] = RefNode(SharedNodes(last.text)[1].id)
    /\ (/\ last.op = "deserialize"
        /\ last.err = NoErr
        /\ \E a \in SourcesOf(last.input) :
              \E n \in Instances(heap) : SharesNested(heap, a, n))
          => Get(last.heap[last.inst].props, "x") = Get(last.heap[last.inst].props, "y")

\* A text with a "ref" node where the resolution map is empty: directly as an
\* init-arg or as a property value.
DanglingReference == "DanglingReference"
HasDanglingRef(json) ==
    /\ json.form = "object"
    /\ \/ \E i \in 1..Len(json.env.serializeInitArgs) :
             json.env.serializeInitArgs[i] = RefNode(DanglingId)
       \/ \E i \in 1..Len(json.env.properties) :
             json.env.properties[i].node = RefNode(DanglingId)

\* The constructor of Serializable gets past its validation.
ValidationPasses ==
    globalArgs.bound /\ _validateArgs(heap, globalArgs.val).err = NoErr

\* C4: when deserialize decodes a "ref" node whose id no earlier node of the
\* current resolution map has, it fails with DanglingReference; it returns
\* no instance. (Stated where nothing else makes the call fail.)
C4_DanglingReference ==
    (/\ last.op = "deserialize"
     /\ HasDanglingRef(last.input)
     /\ last.decodes > 0
     /\ ValidationPasses)
        => last.err = DanglingReference

\* C5: deserialize of a text whose className is no key of the registry fails
\* with UnknownType before it decodes an init-arg or invokes a constructor,
\* and it leaves the registry as it was.
C5_UnknownType ==
    (/\ last.op = "deserialize"
     /\ last.input.form = "object"
     /\ last.input.env.className \notin DOMAIN last.regBefore)
        => /\ last.err = UnknownType
           /\ last.decodes = 0
           /\ last.ctorCalls = 0
           /\ registry = last.regBefore

\* An unknown className in a text that has an init-arg to decode, while the
\* registry holds other classes.
C5_Witness ==
    /\ last.op = "deserialize"
    /\ last.err = UnknownType
    /\ Len(last.input.env.serializeInitArgs) > 0
    /\ DOMAIN registry # {}

\* A text that is not of the shape {className, serializeInitArgs, properties}.
IsMalformed(json) ==
    \/ json.form # "object"
    \/ json.env.className = "undefined"
    \/ ~json.env.hasArgs
    \/ ~json.env.hasProps

\* C6: deserialize fails with MalformedInput for every text that is not of
\* the expected shape: text that is no JSON, and JSON of another shape (null,
\* an object lacking serializeInitArgs or properties).
C6_MalformedInput ==
    (last.op = "deserialize" /\ IsMalformed(last.input))
        => last.err = MalformedInput

\* C7: the registry is append-only and the first registration wins: no step
\* removes or replaces the constructor a name maps to, and a register of a
\* constructor whose name is taken leaves the registry as it was.
C7_RegistryAppendOnly ==
    [][/\ \A name \in DOMAIN registry :
             name \in DOMAIN registry' /\ registry'[name] = registry[name]
       /\ (last'.op = "register" /\ ClassName(last'.Class) \in DOMAIN registry)
             => registry' = registry]_vars

\* register was called with a constructor whose name another constructor holds.
C7_Witness ==
    /\ last.op = "register"
    /\ last.err = NoErr
    /\ ClassName(last.Class) \in DOMAIN last.regBefore
    /\ last.regBefore[ClassName(last.Class)] # last.Class
    /\ registry = last.regBefore

\* Every argument of the list is of a kind the library encodes.
AllSupported(h, args) == \A i \in 1..Len(args) : IsSupportedArg(h, args[i])

\* C8: every construction of an instance of a named subclass C with
\* arguments of supported kinds completes; after it the registry has an entry
\* for C's name and the instance's init-args are the arguments in the order
\* they were passed.
C8_ConstructionCompletes ==
    (/\ last.op = "new"
     /\ last.Class \in SubCtors
     /\ ClassName(last.Class) # NoName
     /\ AllSupported(last.heap, last.args))
        => /\ last.err = NoErr
           /\ ClassName(last.Class) \in DOMAIN registry
           /\ heap[Get(heap[last.inst].props, InitArgsKey).v].items = last.args

\* C9: constructing with a plain record that holds a function warns and
\* succeeds; constructing with an argument of an unencodable kind fails with
\* UnsupportedConstructorArgument and does not add the class to the registry.
C9_ValidationOnConstruction ==
    /\ (/\ last.op = "new"
        /\ ClassName(last.Class) \notin {NoName, ClassName(Base)}
        /\ \E i \in 1..Len(last.args) :
              IsPlainObject(last.heap, last.args[i]) /\ HasFunction(last.heap, last.args[i]))
          => last.err = NoErr /\ last.warned
    /\ (/\ last.op = "new"
        /\ ClassName(last.Class) \notin {NoName, ClassName(Base)}
        /\ \E i \in 1..Len(last.args) : ~IsSupportedArg(last.heap, last.args[i]))
          => /\ last.err = UnsupportedConstructorArgument
             /\ registry = last.regBefore

\* C10: register fails with InvalidRegistration when the name is empty or
\* absent and then leaves the registry as it was; otherwise it succeeds and
\* records the constructor under its name if and only if the name is not
\* yet present.
C10_Register ==
    last.op = "register" =>
        IF ClassName(last.Class) = NoName
        THEN last.err = InvalidRegistration /\ registry = last.regBefore
        ELSE /\ last.err = NoErr
             /\ ClassName(last.Class) \in DOMAIN registry
             /\ \A name \in DOMAIN registry :
                   registry[name] =
                      IF name \in DOMAIN last.regBefore THEN last.regBefore[name]
                      ELSE last.Class
             /\ DOMAIN registry = DOMAIN last.regBefore \cup {ClassName(last.Class)}

\* register has refused a class without a name while the registry held
\* entries.
C10_Witness ==
    /\ last.op = "register"
    /\ last.err = InvalidRegistration
    /\ DOMAIN registry # {}

\* The values held by the object at address a: its items, the values of its
\* own properties or entries and, for a Map, its keys.
Children(h, a) ==
    {h[a].items[i] : i \in 1..Len(h[a].items)}
        \cup {h[a].props[i].val : i \in 1..Len(h[a].props)}
        \cup (IF h[a].kind = "map"
              THEN {h[a].props[i].key : i \in 1..Len(h[a].props)} ELSE {})

\* The values reachable from the values vals.
RECURSIVE Closure(_, _)
Closure(h, vals) ==
    LET next == vals \cup UNION {Children(h, v.v) : v \in {w \in vals : w.k = "ref"}}
    IN IF next = vals THEN vals ELSE Closure(h, next)

\* A value of a kind outside the supported list: a function, a symbol, an
\* object of a class that does not extend Serializable.
IsUnsupportedKind(v) == v.k \in {"fn", "symbol", "custom"}

\* C11: when a value reachable from the init-args or the own properties of
\* an instance is of a kind outside the supported list (a function, an
\* object of a custom class), serialize of the instance fails with
\* UnsupportedType and returns no text.
C11_UnsupportedType ==
    (/\ last.op = "serialize"
     /\ \E v \in Closure(heap, {Ref(last.target)}) : IsUnsupportedKind(v))
        => /\ last.err = UnsupportedType
           /\ last.text = NotJsonText

\* A scalar: a number, a string, a boolean or null.
IsScalar(v) == v.k \in {"num", "nan", "str", "bool", "null"}

\* A sequence of scalars, a Map or a Set of scalars, a Date, a RegExp, or
\* undefined.
IsCollectionOrScalarKind(h, v) ==
    \/ v.k = "undef"
    \/ /\ v.k = "ref"
       /\ h[v.v].kind \in {"arr", "map", "set", "date", "regexp"}
       /\ \A c \in Children(h, v.v) : IsScalar(c)

\* Instance a, constructed with no arguments, holds such a value in its
\* property x.
HoldsCollection(h, a) ==
    /\ h[Get(h[a].props, InitArgsKey).v].items = <<>>
    /\ HasKey(h[a].props, "x")
    /\ IsCollectionOrScalarKind(h, Get(h[a].props, "x"))

\* Equality of two such values, each over its own heap: the same kind, and
\* the same elements in the same order for a sequence and for the entries of
\* a Map, the same members for a Set, the same time for a Date, the same
\* source and flags for a RegExp.
SameCollection(h1, v1, h2, v2) ==
    IF v1.k # "ref" \/ v2.k # "ref" THEN v1 = v2
    ELSE /\ h1[v1.v].kind = h2[v2.v].kind
         /\ IF h1[v1.v].kind = "set"
            THEN Children(h1, v1.v) = Children(h2, v2.v)
            ELSE /\ h1[v1.v].items = h2[v2.v].items
                 /\ h1[v1.v].props = h2[v2.v].props

\* C12: an own property holding a sequence of scalars, a Map, a Set, a Date,
\* a RegExp or undefined is, after serialize followed by deserialize, a value
\* of the same kind equal to the original; undefined stays undefined.
C12_Fidelity ==
    /\ (last.op = "serialize" /\ HoldsCollection(heap, last.target))
          => last.err = NoErr
    /\ last.op = "deserialize" =>
          \A s \in SourcesOf(last.input) :
              HoldsCollection(heap, s) =>
                  /\ last.err = NoErr
                  /\ HasKey(last.heap[last.inst].props, "x")
                  /\ SameCollection(heap, Get(heap[s].props, "x"),
                                    last.heap, Get(last.heap[last.inst].props, "x"))

IsQueryCall(op) ==
    op \in {"query", "queryById", "queryAll", "queryAllByTagName",
            "queryAllByClassName"}

\* C13: from(element) sets the root for the next query call only: a query
\* call made without from() before it, right after a query call that
\* followed from(element) and has returned or thrown, searches document.
C13_FromResetsRoot ==
    (/\ IsQueryCall(lastQuery.op)
     /\ ~lastQuery.from
     /\ IsQueryCall(lastQuery.prevOp)
     /\ lastQuery.prevFrom)
        => lastQuery.used = Document

\* The tests of the encoder in the order the dispatch is specified, each with
\* the tag it emits ("raw": passed through unencoded), and whether value
\* passes it.
KindTests(h, value) ==
    << [tag |-> "Serializable", hit |-> IsKind(h, value, "inst")],
       [tag |-> "Array", hit |-> IsKind(h, value, "arr")],
       [tag |-> "Map", hit |-> IsKind(h, value, "map")],
       [tag |-> "Set", hit |-> IsKind(h, value, "set")],
       [tag |-> "TypedArray", hit |-> IsKind(h, value, "typed")],
       [tag |-> "Date", hit |-> IsKind(h, value, "date")],
       [tag |-> "RegExp", hit |-> IsKind(h, value, "regexp")],
       [tag |-> "Error", hit |-> IsKind(h, value, "error")],
       [tag |-> "BigInt", hit |-> TypeOf(value) = "bigint"],
       [tag |-> "undefined", hit |-> value.k = "undef"],
       [tag |-> "raw", hit |-> value.k = "null" \/ TypeOf(value) # "object"],
       [tag |-> "Object", hit |-> IsKind(h, value, "obj")] >>

\* The tag of the first test value passes, "fail" when it passes none.
FirstMatch(h, value) ==
    LET tests == KindTests(h, value)
        hits == {i \in 1..Len(tests) : tests[i].hit}
    IN IF hits = {} THEN "fail"
       ELSE tests[CHOOSE i \in hits : \A j \in hits : i <= j].tag

\* The fields of a text for the property key.
FieldsOf(json, key) ==
    {i \in 1..Len(json.env.properties) : json.env.properties[i].key = key}

\* C14: the encoder classifies a value by the first test it passes, in the
\* order Serializable instance, Array, Map, Set, typed array, Date, RegExp,
\* Error, bigint, undefined, null or scalar, plain Object, else failure: the
\* node it emits for the property x carries the tag of that test, or is the
\* value itself for null and scalars, and so does the node in the text.
C14_DispatchPrecedence ==
    (last.op = "serialize" /\ HasKey(heap[last.target].props, "x")) =>
        LET value == Get(heap[last.target].props, "x")
            encoded == _serializeValue(heap, value, {last.target})
        IN /\ FirstMatch(heap, value) = "fail" => encoded.err = UnsupportedType
           /\ encoded.err = NoErr =>
                 /\ encoded.node.type = FirstMatch(heap, value)
                 /\ encoded.node.type = "raw" => encoded.node.val = value
           /\ last.err = NoErr =>
                 \A i \in FieldsOf(last.text, "x") :
                     last.text.env.properties[i].node.type = FirstMatch(heap, value)

\* serialize has encoded a property x holding undefined or a bigint, which
\* pass the test for scalars as well as their own.
C14_Witness ==
    /\ last.op = "serialize"
    /\ last.err = NoErr
    /\ HasKey(heap[last.target].props, "x")
    /\ Get(heap[last.target].props, "x").k \in {"undef", "bigint"}
    /\ FieldsOf(last.text, "x") # {}

\* The steps of decoding a text in the order of the claim: every init-arg in
\* list order (with the steps of the instances nested in it), then one
\* constructor call, then every property in the order of the mapping, each
\* decoded and then assigned.
RECURSIVE EnvelopeSteps(_), NodeSteps(_), NodesSteps(_), ArgsSteps(_),
          PropertiesSteps(_)
NodeSteps(n) ==
    CASE n.type = "Serializable" -> EnvelopeSteps(n.text.env)
      [] n.type = "Array" -> NodesSteps(n.items)
      [] n.type = "Set" -> NodesSteps(n.members)
      [] n.type = "Map" ->
            NodesSteps([i \in 1..(2 * Len(n.pairs)) |->
                            n.pairs[(i + 1) \div 2][2 - (i % 2)]])
      [] n.type = "Object" ->
            NodesSteps([i \in 1..Len(n.fields) |-> n.fields[i].node])
      [] OTHER -> <<>>
NodesSteps(ns) ==
    IF ns = <<>> THEN <<>> ELSE NodeSteps(Head(ns)) \o NodesSteps(Tail(ns))
ArgsSteps(ns) ==
    IF ns = <<>> THEN <<>>
    ELSE <<DecodeStep>> \o NodeSteps(Head(ns)) \o ArgsSteps(Tail(ns))
PropertiesSteps(fs) ==
    IF fs = <<>> THEN <<>>
    ELSE <<DecodeStep>> \o NodeSteps(Head(fs).node)
            \o <<AssignStep(Head(fs).key)>> \o PropertiesSteps(Tail(fs))
EnvelopeSteps(env) ==
    ArgsSteps(env.serializeInitArgs) \o <<NewStep>> \o PropertiesSteps(env.properties)

IsPrefix(s, t) == Len(s) <= Len(t) /\ SubSeq(t, 1, Len(s)) = s

\* C15: deserialize decodes all init-args in list order, then invokes the
\* constructor once, and only then assigns each decoded property in the
\* order of the mapping; on return every property named in the text holds
\* the value of the text, also where the constructor assigned another value
\* to it.
C15_DeserializeOrdering ==
    (/\ last.op = "deserialize"
     /\ last.input.form = "object"
     /\ last.input.env.className \in DOMAIN last.regBefore)
        => /\ IsPrefix(last.log, EnvelopeSteps(last.input.env))
           /\ last.err = NoErr =>
                 /\ last.log = EnvelopeSteps(last.input.env)
                 /\ \A i \in 1..Len(last.input.env.properties) :
                       LET field == last.input.env.properties[i]
                           held == last.heap[last.inst].props
                       IN /\ HasKey(held, field.key)
                          /\ IF field.node.type = "raw"
                             THEN Get(held, field.key) = field.node.val
                             ELSE \/ field.node.type = "ref"
                                  \/ field.node.type =
                                        FirstMatch(last.heap, Get(held, field.key))

\* deserialize has returned an instance of the class whose constructor
\* assigns x = 0, from a text with an init-arg and with another value for x.
C15_Witness ==
    /\ last.op = "deserialize"
    /\ last.err = NoErr
    /\ last.heap[last.inst].ctor = AssigningCtor
    /\ Len(last.input.env.serializeInitArgs) > 0
    /\ \E i \in FieldsOf(last.input, "x") :
          /\ last.input.env.properties[i].node = Raw(Num1)
          /\ Get(last.heap[last.inst].props, "x") = Num1
    /\ Get(CtorBody(AssigningCtor), "x") # Num1

\* Only "ref", "Serializable" and "Object" nodes carry an id, in node n and
\* in every node under it, the texts of nested instances included.
RECURSIVE OnlyObjectsCarryIds(_)
OnlyObjectsCarryIds(n) ==
    /\ ("id" \in DOMAIN n) <=> (n.type \in {"ref", "Serializable", "Object"})
    /\ CASE n.type = "Array" ->
                \A i \in 1..Len(n.items) : OnlyObjectsCarryIds(n.items[i])
         [] n.type = "Set" ->
                \A i \in 1..Len(n.members) : OnlyObjectsCarryIds(n.members[i])
         [] n.type = "Map" ->
                \A i \in 1..Len(n.pairs) :
                    OnlyObjectsCarryIds(n.pairs[i][1]) /\ OnlyObjectsCarryIds(n.pairs[i][2])
         [] n.type = "Object" ->
                \A i \in 1..Len(n.fields) : OnlyObjectsCarryIds(n.fields[i].node)
         [] n.type = "Serializable" ->
                /\ \A i \in 1..Len(n.text.env.serializeInitArgs) :
                      OnlyObjectsCarryIds(n.text.env.serializeInitArgs[i])
                /\ \A i \in 1..Len(n.text.env.properties) :
                      OnlyObjectsCarryIds(n.text.env.properties[i].node)
         [] OTHER -> TRUE

\* The property x of instance a is an array holding one identical array twice.
HoldsArrayTwice(h, a) ==
    /\ HasKey(h[a].props, "x")
    /\ IsKind(h, Get(h[a].props, "x"), "arr")
    /\ LET items == h[Get(h[a].props, "x").v].items
       IN /\ Len(items) = 2
          /\ IsKind(h, items[1], "arr")
          /\ items[1] = items[2]

\* C16: Array, Map and Set nodes carry no id and are never emitted as "ref":
\* an identical array held twice by one container is encoded in full at both
\* places, and the two places hold distinct arrays after deserialize; only
\* "Serializable" and "Object" nodes (and the "ref" nodes naming them) carry
\* ids.
C16_ContainerAsymmetry ==
    /\ (last.op = "serialize" /\ last.err = NoErr) =>
          /\ \A i \in 1..Len(last.text.env.properties) :
                OnlyObjectsCarryIds(last.text.env.properties[i].node)
          /\ \A i \in 1..Len(last.text.env.serializeInitArgs) :
                OnlyObjectsCarryIds(last.text.env.serializeInitArgs[i])
          /\ HoldsArrayTwice(heap, last.target) =>
                \A i \in FieldsOf(last.text, "x") :
                    LET node == last.text.env.properties[i].node
                    IN /\ node.type = "Array"
                       /\ node.items[1].type = "Array"
                       /\ node.items[2] = node.items[1]
    /\ (last.op = "deserialize" /\ last.err = NoErr
            /\ \E s \in SourcesOf(last.input) : HoldsArrayTwice(heap, s)) =>
          LET items == last.heap[Get(last.heap[last.inst].props, "x").v].items
          IN /\ IsKind(last.heap, items[1], "arr")
             /\ IsKind(last.heap, items[2], "arr")
             /\ items[1] # items[2]
             /\ last.heap[items[1].v].items = last.heap[items[2].v].items

\* deserialize has returned an instance from the text of one whose property
\* x held an identical array twice.
C16_Witness ==
    /\ last.op = "deserialize"
    /\ last.err = NoErr
    /\ \E s \in SourcesOf(last.input) : HoldsArrayTwice(heap, s)
    /\ HasKey(last.heap[last.inst].props, "x")
    /\ Len(last.heap[Get(last.heap[last.inst].props, "x").v].items) = 2

\* A walk over one encoded value in document order, count being the number
\* of "Object" and "Serializable" nodes begun so far: every such node has the
\* id count, every "ref" has the id of a node begun before it. The text of a
\* nested instance holds encoded values of its own.
RECURSIVE Visit(_, _), VisitAll(_, _), EnvelopeIdsInOrder(_)
VisitRest(r, nodes) == IF ~r.ok THEN r ELSE VisitAll(nodes, r.next)
VisitAll(nodes, count) ==
    IF nodes = <<>> THEN [ok |-> TRUE, next |-> count]
    ELSE VisitRest(Visit(Head(nodes), count), Tail(nodes))
Visit(n, count) ==
    CASE n.type = "ref" -> [ok |-> n.id < count, next |-> count]
      [] n.type = "Serializable" ->
            [ok |-> n.id = count /\ EnvelopeIdsInOrder(n.text.env),
             next |-> count + 1]
      [] n.type = "Object" ->
            IF n.id # count THEN [ok |-> FALSE, next |-> count]
            ELSE VisitAll([i \in 1..Len(n.fields) |-> n.fields[i].node], count + 1)
      [] n.type = "Array" -> VisitAll(n.items, count)
      [] n.type = "Set" -> VisitAll(n.members, count)
      [] n.type = "Map" ->
            VisitAll([i \in 1..(2 * Len(n.pairs)) |->
                         n.pairs[(i + 1) \div 2][2 - (i % 2)]], count)
      [] OTHER -> [ok |-> TRUE, next |-> count]
EnvelopeIdsInOrder(env) ==
    /\ \A i \in 1..Len(env.serializeInitArgs) : Visit(env.serializeInitArgs[i], 0).ok
    /\ \A i \in 1..Len(env.properties) : Visit(env.properties[i].node, 0).ok

\* Everything instance a holds is a scalar, a plain record or an array, and
\* its property x or its first init-arg is a plain record.
InitArgsOf(h, a) == h[Get(h[a].props, InitArgsKey).v].items
RecordsOf(h, a) ==
    {v \in {Get(h[a].props, key) : key \in Keys(h[a].props) \cap {"x"}}
            \cup {InitArgsOf(h, a)[i] : i \in 1..Len(InitArgsOf(h, a))} :
        IsKind(h, v, "obj")}
HoldsRecords(h, a) ==
    /\ RecordsOf(h, a) # {}
    /\ \A v \in Closure(h, {Ref(a)}) \ {Ref(a)} :
          IsScalar(v) \/ IsKind(h, v, "obj") \/ IsKind(h, v, "arr")

\* The value at the end of a path of property names from value v.
Missing == Val("missing", 0)
RECURSIVE Walk(_, _, _)
Walk(h, v, path) ==
    IF path = <<>> THEN v
    ELSE IF IsKind(h, v, "obj") /\ HasKey(h[v.v].props, Head(path))
         THEN Walk(h, Get(h[v.v].props, Head(path)), Tail(path))
         ELSE Missing
PathNames == {"self", "a", "b", "c", "d", "n", "p", "q"}
Paths ==
    {<<>>} \cup {<<k>> : k \in PathNames}
           \cup {<<k, l>> : k \in PathNames, l \in PathNames}

\* Two values, each over its own heap, have the same scalars along every
\* path and the same paths leading to one identical object.
SameAliasing(h1, v1, h2, v2) ==
    \A p \in Paths :
        /\ Walk(h1, v1, p).k = Walk(h2, v2, p).k
        /\ Walk(h1, v1, p).k # "ref" => Walk(h1, v1, p) = Walk(h2, v2, p)
        /\ \A q \in Paths :
              (Walk(h1, v1, p) = Walk(h1, v1, q))
                  <=> (Walk(h2, v2, p) = Walk(h2, v2, q))

\* C17: when one property or init-arg value holds a plain record reachable
\* more than once, a cycle included, encoding ends; within each encoded value
\* the ids are 0, 1, 2, ... in the order the nodes are first visited, no id
\* is used twice, and every "ref" names an "Object" or "Serializable" node
\* begun before it; decoding resolves every "ref" to the identical decoded
\* object.
C17_RecordReferences ==
    /\ (last.op = "serialize" /\ HoldsRecords(heap, last.target))
          => last.err = NoErr
    /\ (last.op = "serialize" /\ last.err = NoErr)
          => EnvelopeIdsInOrder(last.text.env)
    /\ last.op = "deserialize" =>
          \A s \in SourcesOf(last.input) :
              HoldsRecords(heap, s) =>
                  /\ last.err = NoErr
                  /\ Keys(last.heap[last.inst].props) = Keys(heap[s].props)
                  /\ \A key \in Keys(heap[s].props) \cap {"x"} :
                        IsKind(heap, Get(heap[s].props, key), "obj") =>
                            SameAliasing(heap, Get(heap[s].props, key), last.heap,
                                         Get(last.heap[last.inst].props, key))
                  /\ Len(InitArgsOf(last.heap, last.inst)) = Len(InitArgsOf(heap, s))
                  /\ \A i \in 1..Len(InitArgsOf(heap, s)) :
                        IsKind(heap, InitArgsOf(heap, s)[i], "obj") =>
                            SameAliasing(heap, InitArgsOf(heap, s)[i], last.heap,
                                         InitArgsOf(last.heap, last.inst)[i])

\* deserialize has returned an instance whose property x is a record o' with
\* o'.self identical to o', from the text of an instance with o.self = o.
C17_Witness ==
    /\ last.op = "deserialize"
    /\ last.err = NoErr
    /\ \E s \in SourcesOf(last.input) :
          /\ HoldsRecords(heap, s)
          /\ HasKey(heap[s].props, "x")
          /\ Walk(heap, Get(heap[s].props, "x"), <<"self">>) = Get(heap[s].props, "x")
    /\ HasKey(last.heap[last.inst].props, "x")
    /\ IsKind(last.heap, Get(last.heap[last.inst].props, "x"), "obj")
    /\ Walk(last.heap, Get(last.heap[last.inst].props, "x"), <<"self">>)
          = Get(last.heap[last.inst].props, "x")

====
